---- MODULE Spec2Model ----
(***************************************************************************)
(* Chain registry of ethers-core (src/ethers-core/src/types/chain.rs):     *)
(* the Chain enum, its numeric conversions, its string forms (strum and    *)
(* serde derives), its variant iterator and its metadata tables.           *)
(*                                                                         *)
(* Representation.  An integer of n bytes is the little-endian tuple of    *)
(* its bytes, so that every width up to 512 bits is kept exactly.  A text  *)
(* is the tuple of its characters (one-character strings); Str joins it    *)
(* into a string.  A Chain value is named by its variant identifier.       *)
(***************************************************************************)
EXTENDS Integers, Sequences, FiniteSets, TLC

VARIABLES pc, op, arg, res, idx, back_idx, front, back, exhausted

vars == <<pc, op, arg, res, idx, back_idx, front, back, exhausted>>

callVars == <<pc, op, arg, res>>

iterVars == <<idx, back_idx, front, back, exhausted>>

(***************************************************************************)
(* Bounds of the explored inputs.                                          *)
(***************************************************************************)
\* every number 0..MaxSmall is tried as a narrow / 64-bit input
MaxSmall == 300

\* every number within NearIds of a chain id is tried as an input
NearIds == 1

\* formatter widths 0..MaxWidth and precisions 0..MaxPrecision are tried
MaxWidth == 5

MaxPrecision == 4

(***************************************************************************)
(* Texts and bytes.                                                        *)
(***************************************************************************)
RECURSIVE Str(_)
Str(s) == IF s = <<>> THEN "" ELSE Head(s) \o Str(Tail(s))

UpperChars == <<"A", "B", "C", "D", "E", "F", "G", "H", "I", "J", "K", "L", "M", "N", "O", "P", "Q", "R", "S", "T", "U", "V", "W", "X", "Y", "Z">>

LowerChars == <<"a", "b", "c", "d", "e", "f", "g", "h", "i", "j", "k", "l", "m", "n", "o", "p", "q", "r", "s", "t", "u", "v", "w", "x", "y", "z">>

IsUpper(ch) == \E i \in 1..Len(UpperChars) : UpperChars[i] = ch

IsLower(ch) == \E i \in 1..Len(LowerChars) : LowerChars[i] = ch

ToLower(ch) ==
  IF IsUpper(ch)
    THEN LowerChars[CHOOSE i \in 1..Len(UpperChars) : UpperChars[i] = ch]
    ELSE ch

LowerText(s) == [i \in 1..Len(s) |-> ToLower(s[i])]

Min(a, b) == IF a < b THEN a ELSE b

RECURSIVE Pow256(_)
Pow256(k) == IF k = 0 THEN 1 ELSE 256 * Pow256(k - 1)

\* the n-byte little-endian form of a number below 2^31
Bytes(num, n) == [i \in 1..n |-> IF i <= 4 THEN (num \div Pow256(i - 1)) % 256 ELSE 0]

Zeros(n) == [i \in 1..n |-> 0]

Ones(n) == [i \in 1..n |-> 255]

IsZero(v) == \A i \in 1..Len(v) : v[i] = 0

(***************************************************************************)
(* enum Chain: the variants in declaration order and their discriminants.  *)
(***************************************************************************)
Variants ==
  << "Mainnet", "Morden", "Ropsten", "Rinkeby", "Goerli", "Kovan", "Sepolia",
     "Optimism", "OptimismKovan", "OptimismGoerli",
     "Arbitrum", "ArbitrumTestnet", "ArbitrumGoerli", "ArbitrumNova",
     "Cronos", "CronosTestnet",
     "Rsk",
     "BinanceSmartChain", "BinanceSmartChainTestnet",
     "Poa", "Sokol",
     "XDai",
     "Polygon", "PolygonMumbai",
     "Fantom", "FantomTestnet",
     "Moonbeam", "MoonbeamDev",
     "Moonriver",
     "Moonbase",
     "Dev", "AnvilHardhat",
     "Evmos", "EvmosTestnet",
     "Chiado",
     "Oasis",
     "Emerald", "EmeraldTestnet",
     "Avalanche", "AvalancheFuji",
     "Celo", "CeloAlfajores", "CeloBaklava",
     "Aurora", "AuroraTestnet" >>

Chain == {Variants[i] : i \in 1..Len(Variants)}

\* strum EnumCount: Chain::COUNT
COUNT == Len(Variants)

Discriminant(chain) ==
  CASE chain = "Mainnet" -> 1
    [] chain = "Morden" -> 2
    [] chain = "Ropsten" -> 3
    [] chain = "Rinkeby" -> 4
    [] chain = "Goerli" -> 5
    [] chain = "Kovan" -> 42
    [] chain = "Sepolia" -> 11155111
    [] chain = "Optimism" -> 10
    [] chain = "OptimismKovan" -> 69
    [] chain = "OptimismGoerli" -> 420
    [] chain = "Arbitrum" -> 42161
    [] chain = "ArbitrumTestnet" -> 421611
    [] chain = "ArbitrumGoerli" -> 421613
    [] chain = "ArbitrumNova" -> 42170
    [] chain = "Cronos" -> 25
    [] chain = "CronosTestnet" -> 338
    [] chain = "Rsk" -> 30
    [] chain = "BinanceSmartChain" -> 56
    [] chain = "BinanceSmartChainTestnet" -> 97
    [] chain = "Poa" -> 99
    [] chain = "Sokol" -> 77
    [] chain = "XDai" -> 100
    [] chain = "Polygon" -> 137
    [] chain = "PolygonMumbai" -> 80001
    [] chain = "Fantom" -> 250
    [] chain = "FantomTestnet" -> 4002
    [] chain = "Moonbeam" -> 1284
    [] chain = "MoonbeamDev" -> 1281
    [] chain = "Moonriver" -> 1285
    [] chain = "Moonbase" -> 1287
    [] chain = "Dev" -> 1337
    [] chain = "AnvilHardhat" -> 31337
    [] chain = "Evmos" -> 9001
    [] chain = "EvmosTestnet" -> 9000
    [] chain = "Chiado" -> 10200
    [] chain = "Oasis" -> 26863
    [] chain = "Emerald" -> 42262
    [] chain = "EmeraldTestnet" -> 42261
    [] chain = "Avalanche" -> 43114
    [] chain = "AvalancheFuji" -> 43113
    [] chain = "Celo" -> 42220
    [] chain = "CeloAlfajores" -> 44787
    [] chain = "CeloBaklava" -> 62320
    [] chain = "Aurora" -> 1313161554
    [] chain = "AuroraTestnet" -> 1313161555

\* the spelling of each variant identifier
Ident(chain) ==
  CASE chain = "Mainnet" -> <<"M", "a", "i", "n", "n", "e", "t">>
    [] chain = "Morden" -> <<"M", "o", "r", "d", "e", "n">>
    [] chain = "Ropsten" -> <<"R", "o", "p", "s", "t", "e", "n">>
    [] chain = "Rinkeby" -> <<"R", "i", "n", "k", "e", "b", "y">>
    [] chain = "Goerli" -> <<"G", "o", "e", "r", "l", "i">>
    [] chain = "Kovan" -> <<"K", "o", "v", "a", "n">>
    [] chain = "Sepolia" -> <<"S", "e", "p", "o", "l", "i", "a">>
    [] chain = "Optimism" -> <<"O", "p", "t", "i", "m", "i", "s", "m">>
    [] chain = "OptimismKovan" -> <<"O", "p", "t", "i", "m", "i", "s", "m", "K", "o", "v", "a", "n">>
    [] chain = "OptimismGoerli" -> <<"O", "p", "t", "i", "m", "i", "s", "m", "G", "o", "e", "r", "l", "i">>
    [] chain = "Arbitrum" -> <<"A", "r", "b", "i", "t", "r", "u", "m">>
    [] chain = "ArbitrumTestnet" -> <<"A", "r", "b", "i", "t", "r", "u", "m", "T", "e", "s", "t", "n", "e", "t">>
    [] chain = "ArbitrumGoerli" -> <<"A", "r", "b", "i", "t", "r", "u", "m", "G", "o", "e", "r", "l", "i">>
    [] chain = "ArbitrumNova" -> <<"A", "r", "b", "i", "t", "r", "u", "m", "N", "o", "v", "a">>
    [] chain = "Cronos" -> <<"C", "r", "o", "n", "o", "s">>
    [] chain = "CronosTestnet" -> <<"C", "r", "o", "n", "o", "s", "T", "e", "s", "t", "n", "e", "t">>
    [] chain = "Rsk" -> <<"R", "s", "k">>
    [] chain = "BinanceSmartChain" -> <<"B", "i", "n", "a", "n", "c", "e", "S", "m", "a", "r", "t", "C", "h", "a", "i", "n">>
    [] chain = "BinanceSmartChainTestnet" -> <<"B", "i", "n", "a", "n", "c", "e", "S", "m", "a", "r", "t", "C", "h", "a", "i", "n", "T", "e", "s", "t", "n", "e", "t">>
    [] chain = "Poa" -> <<"P", "o", "a">>
    [] chain = "Sokol" -> <<"S", "o", "k", "o", "l">>
    [] chain = "XDai" -> <<"X", "D", "a", "i">>
    [] chain = "Polygon" -> <<"P", "o", "l", "y", "g", "o", "n">>
    [] chain = "PolygonMumbai" -> <<"P", "o", "l", "y", "g", "o", "n", "M", "u", "m", "b", "a", "i">>
    [] chain = "Fantom" -> <<"F", "a", "n", "t", "o", "m">>
    [] chain = "FantomTestnet" -> <<"F", "a", "n", "t", "o", "m", "T", "e", "s", "t", "n", "e", "t">>
    [] chain = "Moonbeam" -> <<"M", "o", "o", "n", "b", "e", "a", "m">>
    [] chain = "MoonbeamDev" -> <<"M", "o", "o", "n", "b", "e", "a", "m", "D", "e", "v">>
    [] chain = "Moonriver" -> <<"M", "o", "o", "n", "r", "i", "v", "e", "r">>
    [] chain = "Moonbase" -> <<"M", "o", "o", "n", "b", "a", "s", "e">>
    [] chain = "Dev" -> <<"D", "e", "v">>
    [] chain = "AnvilHardhat" -> <<"A", "n", "v", "i", "l", "H", "a", "r", "d", "h", "a", "t">>
    [] chain = "Evmos" -> <<"E", "v", "m", "o", "s">>
    [] chain = "EvmosTestnet" -> <<"E", "v", "m", "o", "s", "T", "e", "s", "t", "n", "e", "t">>
    [] chain = "Chiado" -> <<"C", "h", "i", "a", "d", "o">>
    [] chain = "Oasis" -> <<"O", "a", "s", "i", "s">>
    [] chain = "Emerald" -> <<"E", "m", "e", "r", "a", "l", "d">>
    [] chain = "EmeraldTestnet" -> <<"E", "m", "e", "r", "a", "l", "d", "T", "e", "s", "t", "n", "e", "t">>
    [] chain = "Avalanche" -> <<"A", "v", "a", "l", "a", "n", "c", "h", "e">>
    [] chain = "AvalancheFuji" -> <<"A", "v", "a", "l", "a", "n", "c", "h", "e", "F", "u", "j", "i">>
    [] chain = "Celo" -> <<"C", "e", "l", "o">>
    [] chain = "CeloAlfajores" -> <<"C", "e", "l", "o", "A", "l", "f", "a", "j", "o", "r", "e", "s">>
    [] chain = "CeloBaklava" -> <<"C", "e", "l", "o", "B", "a", "k", "l", "a", "v", "a">>
    [] chain = "Aurora" -> <<"A", "u", "r", "o", "r", "a">>
    [] chain = "AuroraTestnet" -> <<"A", "u", "r", "o", "r", "a", "T", "e", "s", "t", "n", "e", "t">>

\* the #[strum(serialize = ...)] strings of a variant, in attribute order
StrumSerialize(chain) ==
  CASE chain = "BinanceSmartChain" -> << <<"b", "s", "c">> >>
    [] chain = "BinanceSmartChainTestnet" -> << <<"b", "s", "c", "-", "t", "e", "s", "t", "n", "e", "t">> >>
    [] chain = "XDai" -> << <<"g", "n", "o", "s", "i", "s">>, <<"x", "d", "a", "i">>, <<"g", "n", "o", "s", "i", "s", "-", "c", "h", "a", "i", "n">> >>
    [] chain = "PolygonMumbai" -> << <<"m", "u", "m", "b", "a", "i">>, <<"p", "o", "l", "y", "g", "o", "n", "-", "m", "u", "m", "b", "a", "i">> >>
    [] chain = "Dev" -> << <<"d", "e", "v">> >>
    [] chain = "AnvilHardhat" -> << <<"a", "n", "v", "i", "l", "-", "h", "a", "r", "d", "h", "a", "t">>, <<"a", "n", "v", "i", "l">>, <<"h", "a", "r", "d", "h", "a", "t">> >>
    [] chain = "AvalancheFuji" -> << <<"f", "u", "j", "i">>, <<"a", "v", "a", "l", "a", "n", "c", "h", "e", "-", "f", "u", "j", "i">> >>
    [] OTHER -> << >>

(***************************************************************************)
(* Numeric conversions.                                                    *)
(***************************************************************************)
Ok(chain) == << "Ok", chain >>

\* ParseChainError = TryFromPrimitiveError<Chain>: only a `number` field
ParseChainError(number) == << "Err", number >>

\* impl From<Chain> for u64: `chain as u64`
to_u64(chain) == Bytes(Discriminant(chain), 8)

\* impl_into_numeric!(u128 U64 U128 U256 U512)
SizeOf(ty) ==
  CASE ty = "u8" -> 1
    [] ty = "u16" -> 2
    [] ty = "u32" -> 4
    [] ty = "u64" -> 8
    [] ty = "U64" -> 8
    [] ty = "u128" -> 16
    [] ty = "U128" -> 16
    [] ty = "U256" -> 32
    [] ty = "U512" -> 64

\* `u64::from(chain).into()`: the 64-bit id, zero-extended to the target type
into_numeric(ty, chain) == to_u64(chain) \o Zeros(SizeOf(ty) - 8)

\* #[derive(TryFromPrimitive)] with #[repr(u64)]: the first variant whose
\* discriminant equals the number, else the error carrying the number
RECURSIVE try_from_primitive(_, _)
try_from_primitive(number, i) ==
  IF i > Len(Variants) THEN ParseChainError(number)
  ELSE IF to_u64(Variants[i]) = number THEN Ok(Variants[i])
  ELSE try_from_primitive(number, i + 1)

\* variant of from_u64 that matches on the low 32 bits only
from_u64_low32(number) == try_from_primitive(SubSeq(number, 1, 4) \o Zeros(4), 1)

from_u64(number) == try_from_primitive(number, 1)

\* `value as u64` of an unsigned native integer: zero extension
as_u64(value) == value \o Zeros(8 - Len(value))

\* impl TryFrom<u8|u16|u32|usize> for Chain
try_from_native(value) == from_u64(as_u64(value))

\* U64/U128/U256/U512 are arrays of 64-bit words, least significant first
n_words(value) == Len(value) \div 8

Word(value, k) == SubSeq(value, 8 * k + 1, 8 * k + 8)

low_u64(value) == Word(value, 0)

\* impl TryFrom<U64> for Chain
try_from_U64(value) == from_u64(low_u64(value))

BitLen8(b) ==
  IF b >= 128 THEN 8 ELSE IF b >= 64 THEN 7 ELSE IF b >= 32 THEN 6
  ELSE IF b >= 16 THEN 5 ELSE IF b >= 8 THEN 4 ELSE IF b >= 4 THEN 3
  ELSE IF b >= 2 THEN 2 ELSE IF b >= 1 THEN 1 ELSE 0

\* u64::leading_zeros
leading_zeros(w) ==
  IF IsZero(w) THEN 64
  ELSE LET h == CHOOSE i \in 1..8 : w[i] # 0 /\ \A j \in (i + 1)..8 : w[j] = 0
       IN  64 - (8 * (h - 1) + BitLen8(w[h]))

\* uint's bits(): scan the words from the most significant down to arr[1]
RECURSIVE bits_scan(_, _)
bits_scan(value, i) ==
  IF i >= n_words(value) THEN 64 - leading_zeros(Word(value, 0))
  ELSE IF ~IsZero(Word(value, n_words(value) - i))
    THEN 64 * (n_words(value) - i + 1) - leading_zeros(Word(value, n_words(value) - i))
  ELSE bits_scan(value, i + 1)

bits(value) == bits_scan(value, 1)

\* variant of try_from_wide without the bits() check
try_from_wide_truncating(value) == from_u64(low_u64(value))

\* impl TryFrom<U128|U256|U512> for Chain
try_from_wide(value) ==
  IF bits(value) > 64 THEN ParseChainError(low_u64(value))
  ELSE from_u64(low_u64(value))

(***************************************************************************)
(* Inputs of the numeric conversions.                                      *)
(***************************************************************************)
NearId(chain) ==
  {num \in (Discriminant(chain) - NearIds)..(Discriminant(chain) + NearIds) : num >= 0}

IdProbe == {0} \cup UNION {NearId(chain) : chain \in Chain}

ProbeNums == (0..MaxSmall) \cup IdProbe

\* values of an n-byte native type, n <= 4
NativeInputs(n) ==
  {Bytes(num, n) : num \in {p \in ProbeNums : n >= 4 \/ p < Pow256(n)}} \cup {Ones(n)}

HighHalves == {Zeros(4), Bytes(1, 4), Ones(4)}

U64Inputs == {lo \o hi : lo \in NativeInputs(4), hi \in HighHalves}

\* usize is 32 or 64 bits wide, by target
UsizeInputs == NativeInputs(4) \cup U64Inputs

NativeInputsOf(ty) ==
  CASE ty = "u8" -> NativeInputs(1)
    [] ty = "u16" -> NativeInputs(2)
    [] ty = "u32" -> NativeInputs(4)
    [] ty = "usize" -> UsizeInputs

WideLow == {Bytes(num, 4) \o hi : num \in IdProbe, hi \in HighHalves}

\* the words above the lowest: all zero, one nonzero word, or all ones
HighWords(n) ==
  {Zeros(8 * n), Ones(8 * n)} \cup
  {Zeros(8 * (k - 1)) \o w \o Zeros(8 * (n - k)) :
     k \in 1..n, w \in {Bytes(1, 8), Ones(8), Zeros(7) \o << 128 >>}}

WideInputs(ty) == {lo \o hi : lo \in WideLow, hi \in HighWords(SizeOf(ty) \div 8 - 1)}

(***************************************************************************)
(* Names: strum (kebab-case), serde (snake_case), Display, Serialize.      *)
(***************************************************************************)
None == << >>

Some(x) == << x >>

\* heck's word splitting of an alphanumeric identifier: a boundary after a
\* lowercase letter followed by an uppercase one, and before the last
\* uppercase letter of an uppercase run that a lowercase letter follows
RECURSIVE split_words(_, _, _, _)
split_words(word, i, init, mode) ==
  IF i > Len(word) THEN << >>
  ELSE IF i = Len(word) THEN << SubSeq(word, init, Len(word)) >>
  ELSE LET c == word[i]
           next == word[i + 1]
           next_mode == IF IsLower(c) THEN "Lowercase"
                        ELSE IF IsUpper(c) THEN "Uppercase" ELSE mode
       IN  IF next_mode = "Lowercase" /\ IsUpper(next)
             THEN << SubSeq(word, init, i) >> \o split_words(word, i + 1, i + 1, "Boundary")
           ELSE IF mode = "Uppercase" /\ IsUpper(c) /\ IsLower(next)
             THEN << SubSeq(word, init, i - 1) >> \o split_words(word, i + 1, i, "Boundary")
           ELSE split_words(word, i + 1, init, next_mode)

RECURSIVE join_lower(_, _)
join_lower(words, sep) ==
  IF words = << >> THEN << >>
  ELSE IF Len(words) = 1 THEN LowerText(words[1])
  ELSE LowerText(words[1]) \o sep \o join_lower(Tail(words), sep)

\* #[strum(serialize_all = "kebab-case")]: heck's to_kebab_case
to_kebab_case(ident) == join_lower(split_words(ident, 1, 1, "Boundary"), <<"-">>)

\* #[serde(rename_all = "snake_case")]: serde_derive's rule for variants, an
\* underscore before every uppercase letter but the first, all lowercased
RECURSIVE serde_snake_case(_, _)
serde_snake_case(ident, i) ==
  IF i > Len(ident) THEN << >>
  ELSE (IF i > 1 /\ IsUpper(ident[i]) THEN <<"_">> ELSE << >>)
         \o << ToLower(ident[i]) >> \o serde_snake_case(ident, i + 1)

\* variant of get_preferred_name that ignores the declared strings
get_preferred_name_ident(chain) == to_kebab_case(Ident(chain))

\* variant of get_preferred_name that takes the first declared string
get_preferred_name_first(chain) ==
  IF StrumSerialize(chain) # << >> THEN Head(StrumSerialize(chain))
  ELSE to_kebab_case(Ident(chain))

\* strum's preferred name (AsRefStr): the serialize strings sorted by length
\* (stable) and the last one taken, else the case-converted identifier
get_preferred_name(chain) ==
  LET serialized == StrumSerialize(chain)
  IN  IF serialized # << >>
        THEN serialized[CHOOSE i \in 1..Len(serialized) :
                          \A j \in 1..Len(serialized) :
                             /\ Len(serialized[j]) <= Len(serialized[i])
                             /\ j > i => Len(serialized[j]) < Len(serialized[i])]
        ELSE to_kebab_case(Ident(chain))

\* strum's accepted strings (EnumString): the serialize strings when there
\* are any, else the case-converted identifier
get_serializations(chain) ==
  IF StrumSerialize(chain) # << >> THEN StrumSerialize(chain)
  ELSE << to_kebab_case(Ident(chain)) >>

\* #[derive(AsRefStr)]
as_ref(chain) == get_preferred_name(chain)

Matches(texts, s) == \E i \in 1..Len(texts) : texts[i] = s

VariantNotFound == << "Err", "VariantNotFound" >>

RECURSIVE from_str_scan(_, _)
from_str_scan(s, i) ==
  IF i > Len(Variants) THEN VariantNotFound
  ELSE IF Matches(get_serializations(Variants[i]), s) THEN Ok(Variants[i])
  ELSE from_str_scan(s, i + 1)

\* variant of from_str that accepts the preferred name only
RECURSIVE from_str_main_only(_, _)
from_str_main_only(s, i) ==
  IF i > Len(Variants) THEN VariantNotFound
  ELSE IF as_ref(Variants[i]) = s THEN Ok(Variants[i])
  ELSE from_str_main_only(s, i + 1)

from_str_no_alias(s) == from_str_main_only(s, 1)

\* #[derive(EnumString)]: FromStr, the first variant with a matching string
from_str(s) == from_str_scan(s, 1)

Spaces(n) == [i \in 1..n |-> " "]

\* fmt::Formatter::pad: truncate to the precision, then fill to the width
pad(s, width, precision, align) ==
  LET t == IF precision = None THEN s ELSE SubSeq(s, 1, Min(precision[1], Len(s)))
      padding == IF width = None \/ Len(t) >= width[1] THEN 0 ELSE width[1] - Len(t)
      pre == CASE align = "Right" -> padding
               [] align = "Center" -> padding \div 2
               [] OTHER -> 0
  IN  Spaces(pre) \o t \o Spaces(padding - pre)

\* impl fmt::Display for Chain
fmt(chain, width, precision, align) == pad(as_ref(chain), width, precision, align)

\* ToString: Display with the default formatter
to_string(chain) == fmt(chain, None, None, "Unknown")

\* impl Serialize for Chain: s.serialize_str(self.as_ref())
serialize(chain) == as_ref(chain)

UnknownVariant == << "Err", "unknown variant" >>

\* #[derive(Deserialize)] with rename_all = "snake_case": the variant whose
\* renamed identifier is the text
RECURSIVE deserialize_scan(_, _)
deserialize_scan(s, i) ==
  IF i > Len(Variants) THEN UnknownVariant
  ELSE IF serde_snake_case(Ident(Variants[i]), 1) = s THEN Ok(Variants[i])
  ELSE deserialize_scan(s, i + 1)

deserialize(s) == deserialize_scan(s, 1)

\* variant of default: the second declared variant
default_second == Variants[2]

\* impl Default for Chain
default == "Mainnet"

RECURSIVE SeqToSet(_)
SeqToSet(s) == IF s = << >> THEN {} ELSE {Head(s)} \cup SeqToSet(Tail(s))

\* texts tried by from_str and deserialize
TextInputs ==
  { << >>, <<"b", "i", "n", "a", "n", "c", "e", "-", "s", "m", "a", "r", "t", "-", "c", "h", "a", "i", "n">>, <<"b", "s", "c", "_", "t", "e", "s", "t", "n", "e", "t">>, <<"B", "S", "C">>, <<"g", "n", "o", "s", "i", "s", " ", "c", "h", "a", "i", "n">> }
    \cup UNION { SeqToSet(get_serializations(chain)) \cup
                 { to_kebab_case(Ident(chain)), serde_snake_case(Ident(chain), 1),
                   Ident(chain) } : chain \in Chain }

OptionOf(S) == {None} \cup {Some(x) : x \in S}

Alignments == {"Unknown", "Left", "Right", "Center"}

(***************************************************************************)
(* Metadata tables.                                                        *)
(***************************************************************************)
\* Chain::etherscan_urls: Some(<<first, second>>) or None
etherscan_urls(chain) ==
  CASE chain = "Mainnet" -> Some(<< <<"h", "t", "t", "p", "s", ":", "/", "/", "a", "p", "i", ".", "e", "t", "h", "e", "r", "s", "c", "a", "n", ".", "i", "o", "/", "a", "p", "i">>, <<"h", "t", "t", "p", "s", ":", "/", "/", "e", "t", "h", "e", "r", "s", "c", "a", "n", ".", "i", "o">> >>)
    [] chain = "Ropsten" -> Some(<< <<"h", "t", "t", "p", "s", ":", "/", "/", "a", "p", "i", "-", "r", "o", "p", "s", "t", "e", "n", ".", "e", "t", "h", "e", "r", "s", "c", "a", "n", ".", "i", "o", "/", "a", "p", "i">>, <<"h", "t", "t", "p", "s", ":", "/", "/", "r", "o", "p", "s", "t", "e", "n", ".", "e", "t", "h", "e", "r", "s", "c", "a", "n", ".", "i", "o">> >>)
    [] chain = "Kovan" -> Some(<< <<"h", "t", "t", "p", "s", ":", "/", "/", "a", "p", "i", "-", "k", "o", "v", "a", "n", ".", "e", "t", "h", "e", "r", "s", "c", "a", "n", ".", "i", "o", "/", "a", "p", "i">>, <<"h", "t", "t", "p", "s", ":", "/", "/", "k", "o", "v", "a", "n", ".", "e", "t", "h", "e", "r", "s", "c", "a", "n", ".", "i", "o">> >>)
    [] chain = "Rinkeby" -> Some(<< <<"h", "t", "t", "p", "s", ":", "/", "/", "a", "p", "i", "-", "r", "i", "n", "k", "e", "b", "y", ".", "e", "t", "h", "e", "r", "s", "c", "a", "n", ".", "i", "o", "/", "a", "p", "i">>, <<"h", "t", "t", "p", "s", ":", "/", "/", "r", "i", "n", "k", "e", "b", "y", ".", "e", "t", "h", "e", "r", "s", "c", "a", "n", ".", "i", "o">> >>)
    [] chain = "Goerli" -> Some(<< <<"h", "t", "t", "p", "s", ":", "/", "/", "a", "p", "i", "-", "g", "o", "e", "r", "l", "i", ".", "e", "t", "h", "e", "r", "s", "c", "a", "n", ".", "i", "o", "/", "a", "p", "i">>, <<"h", "t", "t", "p", "s", ":", "/", "/", "g", "o", "e", "r", "l", "i", ".", "e", "t", "h", "e", "r", "s", "c", "a", "n", ".", "i", "o">> >>)
    [] chain = "Sepolia" -> Some(<< <<"h", "t", "t", "p", "s", ":", "/", "/", "a", "p", "i", "-", "s", "e", "p", "o", "l", "i", "a", ".", "e", "t", "h", "e", "r", "s", "c", "a", "n", ".", "i", "o", "/", "a", "p", "i">>, <<"h", "t", "t", "p", "s", ":", "/", "/", "s", "e", "p", "o", "l", "i", "a", ".", "e", "t", "h", "e", "r", "s", "c", "a", "n", ".", "i", "o">> >>)
    [] chain = "Polygon" -> Some(<< <<"h", "t", "t", "p", "s", ":", "/", "/", "a", "p", "i", ".", "p", "o", "l", "y", "g", "o", "n", "s", "c", "a", "n", ".", "c", "o", "m", "/", "a", "p", "i">>, <<"h", "t", "t", "p", "s", ":", "/", "/", "p", "o", "l", "y", "g", "o", "n", "s", "c", "a", "n", ".", "c", "o", "m">> >>)
    [] chain = "PolygonMumbai" -> Some(<< <<"h", "t", "t", "p", "s", ":", "/", "/", "a", "p", "i", "-", "t", "e", "s", "t", "n", "e", "t", ".", "p", "o", "l", "y", "g", "o", "n", "s", "c", "a", "n", ".", "c", "o", "m", "/", "a", "p", "i">>, <<"h", "t", "t", "p", "s", ":", "/", "/", "m", "u", "m", "b", "a", "i", ".", "p", "o", "l", "y", "g", "o", "n", "s", "c", "a", "n", ".", "c", "o", "m">> >>)
    [] chain = "Avalanche" -> Some(<< <<"h", "t", "t", "p", "s", ":", "/", "/", "a", "p", "i", ".", "s", "n", "o", "w", "t", "r", "a", "c", "e", ".", "i", "o", "/", "a", "p", "i">>, <<"h", "t", "t", "p", "s", ":", "/", "/", "s", "n", "o", "w", "t", "r", "a", "c", "e", ".", "i", "o">> >>)
    [] chain = "AvalancheFuji" -> Some(<< <<"h", "t", "t", "p", "s", ":", "/", "/", "a", "p", "i", "-", "t", "e", "s", "t", "n", "e", "t", ".", "s", "n", "o", "w", "t", "r", "a", "c", "e", ".", "i", "o", "/", "a", "p", "i">>, <<"h", "t", "t", "p", "s", ":", "/", "/", "t", "e", "s", "t", "n", "e", "t", ".", "s", "n", "o", "w", "t", "r", "a", "c", "e", ".", "i", "o">> >>)
    [] chain = "Optimism" -> Some(<< <<"h", "t", "t", "p", "s", ":", "/", "/", "a", "p", "i", "-", "o", "p", "t", "i", "m", "i", "s", "t", "i", "c", ".", "e", "t", "h", "e", "r", "s", "c", "a", "n", ".", "i", "o", "/", "a", "p", "i">>, <<"h", "t", "t", "p", "s", ":", "/", "/", "o", "p", "t", "i", "m", "i", "s", "t", "i", "c", ".", "e", "t", "h", "e", "r", "s", "c", "a", "n", ".", "i", "o">> >>)
    [] chain = "OptimismGoerli" -> Some(<< <<"h", "t", "t", "p", "s", ":", "/", "/", "a", "p", "i", "-", "g", "o", "e", "r", "l", "i", "-", "o", "p", "t", "i", "m", "i", "s", "t", "i", "c", ".", "e", "t", "h", "e", "r", "s", "c", "a", "n", ".", "i", "o", "/", "a", "p", "i">>, <<"h", "t", "t", "p", "s", ":", "/", "/", "g", "o", "e", "r", "l", "i", "-", "o", "p", "t", "i", "m", "i", "s", "m", ".", "e", "t", "h", "e", "r", "s", "c", "a", "n", ".", "i", "o">> >>)
    [] chain = "OptimismKovan" -> Some(<< <<"h", "t", "t", "p", "s", ":", "/", "/", "a", "p", "i", "-", "k", "o", "v", "a", "n", "-", "o", "p", "t", "i", "m", "i", "s", "t", "i", "c", ".", "e", "t", "h", "e", "r", "s", "c", "a", "n", ".", "i", "o", "/", "a", "p", "i">>, <<"h", "t", "t", "p", "s", ":", "/", "/", "k", "o", "v", "a", "n", "-", "o", "p", "t", "i", "m", "i", "s", "t", "i", "c", ".", "e", "t", "h", "e", "r", "s", "c", "a", "n", ".", "i", "o">> >>)
    [] chain = "Fantom" -> Some(<< <<"h", "t", "t", "p", "s", ":", "/", "/", "a", "p", "i", ".", "f", "t", "m", "s", "c", "a", "n", ".", "c", "o", "m", "/", "a", "p", "i">>, <<"h", "t", "t", "p", "s", ":", "/", "/", "f", "t", "m", "s", "c", "a", "n", ".", "c", "o", "m">> >>)
    [] chain = "FantomTestnet" -> Some(<< <<"h", "t", "t", "p", "s", ":", "/", "/", "a", "p", "i", "-", "t", "e", "s", "t", "n", "e", "t", ".", "f", "t", "m", "s", "c", "a", "n", ".", "c", "o", "m", "/", "a", "p", "i">>, <<"h", "t", "t", "p", "s", ":", "/", "/", "t", "e", "s", "t", "n", "e", "t", ".", "f", "t", "m", "s", "c", "a", "n", ".", "c", "o", "m">> >>)
    [] chain = "BinanceSmartChain" -> Some(<< <<"h", "t", "t", "p", "s", ":", "/", "/", "a", "p", "i", ".", "b", "s", "c", "s", "c", "a", "n", ".", "c", "o", "m", "/", "a", "p", "i">>, <<"h", "t", "t", "p", "s", ":", "/", "/", "b", "s", "c", "s", "c", "a", "n", ".", "c", "o", "m">> >>)
    [] chain = "BinanceSmartChainTestnet" -> Some(<< <<"h", "t", "t", "p", "s", ":", "/", "/", "a", "p", "i", "-", "t", "e", "s", "t", "n", "e", "t", ".", "b", "s", "c", "s", "c", "a", "n", ".", "c", "o", "m", "/", "a", "p", "i">>, <<"h", "t", "t", "p", "s", ":", "/", "/", "t", "e", "s", "t", "n", "e", "t", ".", "b", "s", "c", "s", "c", "a", "n", ".", "c", "o", "m">> >>)
    [] chain = "Arbitrum" -> Some(<< <<"h", "t", "t", "p", "s", ":", "/", "/", "a", "p", "i", ".", "a", "r", "b", "i", "s", "c", "a", "n", ".", "i", "o", "/", "a", "p", "i">>, <<"h", "t", "t", "p", "s", ":", "/", "/", "a", "r", "b", "i", "s", "c", "a", "n", ".", "i", "o">> >>)
    [] chain = "ArbitrumTestnet" -> Some(<< <<"h", "t", "t", "p", "s", ":", "/", "/", "a", "p", "i", "-", "t", "e", "s", "t", "n", "e", "t", ".", "a", "r", "b", "i", "s", "c", "a", "n", ".", "i", "o", "/", "a", "p", "i">>, <<"h", "t", "t", "p", "s", ":", "/", "/", "t", "e", "s", "t", "n", "e", "t", ".", "a", "r", "b", "i", "s", "c", "a", "n", ".", "i", "o">> >>)
    [] chain = "ArbitrumGoerli" -> Some(<< <<"h", "t", "t", "p", "s", ":", "/", "/", "g", "o", "e", "r", "l", "i", "-", "r", "o", "l", "l", "u", "p", "-", "e", "x", "p", "l", "o", "r", "e", "r", ".", "a", "r", "b", "i", "t", "r", "u", "m", ".", "i", "o", "/", "a", "p", "i">>, <<"h", "t", "t", "p", "s", ":", "/", "/", "g", "o", "e", "r", "l", "i", "-", "r", "o", "l", "l", "u", "p", "-", "e", "x", "p", "l", "o", "r", "e", "r", ".", "a", "r", "b", "i", "t", "r", "u", "m", ".", "i", "o">> >>)
    [] chain = "ArbitrumNova" -> Some(<< <<"h", "t", "t", "p", "s", ":", "/", "/", "a", "p", "i", "-", "n", "o", "v", "a", ".", "a", "r", "b", "i", "s", "c", "a", "n", ".", "i", "o", "/", "a", "p", "i">>, <<"h", "t", "t", "p", "s", ":", "/", "/", "n", "o", "v", "a", ".", "a", "r", "b", "i", "s", "c", "a", "n", ".", "i", "o", "/">> >>)
    [] chain = "Cronos" -> Some(<< <<"h", "t", "t", "p", "s", ":", "/", "/", "a", "p", "i", ".", "c", "r", "o", "n", "o", "s", "c", "a", "n", ".", "c", "o", "m", "/", "a", "p", "i">>, <<"h", "t", "t", "p", "s", ":", "/", "/", "c", "r", "o", "n", "o", "s", "c", "a", "n", ".", "c", "o", "m">> >>)
    [] chain = "CronosTestnet" -> Some(<< <<"h", "t", "t", "p", "s", ":", "/", "/", "a", "p", "i", "-", "t", "e", "s", "t", "n", "e", "t", ".", "c", "r", "o", "n", "o", "s", "c", "a", "n", ".", "c", "o", "m", "/", "a", "p", "i">>, <<"h", "t", "t", "p", "s", ":", "/", "/", "t", "e", "s", "t", "n", "e", "t", ".", "c", "r", "o", "n", "o", "s", "c", "a", "n", ".", "c", "o", "m">> >>)
    [] chain = "Moonbeam" -> Some(<< <<"h", "t", "t", "p", "s", ":", "/", "/", "a", "p", "i", "-", "m", "o", "o", "n", "b", "e", "a", "m", ".", "m", "o", "o", "n", "s", "c", "a", "n", ".", "i", "o", "/", "a", "p", "i">>, <<"h", "t", "t", "p", "s", ":", "/", "/", "m", "o", "o", "n", "b", "e", "a", "m", ".", "m", "o", "o", "n", "s", "c", "a", "n", ".", "i", "o", "/">> >>)
    [] chain = "Moonbase" -> Some(<< <<"h", "t", "t", "p", "s", ":", "/", "/", "a", "p", "i", "-", "m", "o", "o", "n", "b", "a", "s", "e", ".", "m", "o", "o", "n", "s", "c", "a", "n", ".", "i", "o", "/", "a", "p", "i">>, <<"h", "t", "t", "p", "s", ":", "/", "/", "m", "o", "o", "n", "b", "a", "s", "e", ".", "m", "o", "o", "n", "s", "c", "a", "n", ".", "i", "o", "/">> >>)
    [] chain = "Moonriver" -> Some(<< <<"h", "t", "t", "p", "s", ":", "/", "/", "a", "p", "i", "-", "m", "o", "o", "n", "r", "i", "v", "e", "r", ".", "m", "o", "o", "n", "s", "c", "a", "n", ".", "i", "o", "/", "a", "p", "i">>, <<"h", "t", "t", "p", "s", ":", "/", "/", "m", "o", "o", "n", "r", "i", "v", "e", "r", ".", "m", "o", "o", "n", "s", "c", "a", "n", ".", "i", "o">> >>)
    [] chain = "XDai" -> Some(<< <<"h", "t", "t", "p", "s", ":", "/", "/", "b", "l", "o", "c", "k", "s", "c", "o", "u", "t", ".", "c", "o", "m", "/", "x", "d", "a", "i", "/", "m", "a", "i", "n", "n", "e", "t", "/", "a", "p", "i">>, <<"h", "t", "t", "p", "s", ":", "/", "/", "b", "l", "o", "c", "k", "s", "c", "o", "u", "t", ".", "c", "o", "m", "/", "x", "d", "a", "i", "/", "m", "a", "i", "n", "n", "e", "t">> >>)
    [] chain = "Chiado" -> Some(<< <<"h", "t", "t", "p", "s", ":", "/", "/", "b", "l", "o", "c", "k", "s", "c", "o", "u", "t", ".", "c", "h", "i", "a", "d", "o", "c", "h", "a", "i", "n", ".", "n", "e", "t", "/", "a", "p", "i">>, <<"h", "t", "t", "p", "s", ":", "/", "/", "b", "l", "o", "c", "k", "s", "c", "o", "u", "t", ".", "c", "h", "i", "a", "d", "o", "c", "h", "a", "i", "n", ".", "n", "e", "t">> >>)
    [] chain = "Sokol" -> Some(<< <<"h", "t", "t", "p", "s", ":", "/", "/", "b", "l", "o", "c", "k", "s", "c", "o", "u", "t", ".", "c", "o", "m", "/", "p", "o", "a", "/", "s", "o", "k", "o", "l", "/", "a", "p", "i">>, <<"h", "t", "t", "p", "s", ":", "/", "/", "b", "l", "o", "c", "k", "s", "c", "o", "u", "t", ".", "c", "o", "m", "/", "p", "o", "a", "/", "s", "o", "k", "o", "l">> >>)
    [] chain = "Poa" -> Some(<< <<"h", "t", "t", "p", "s", ":", "/", "/", "b", "l", "o", "c", "k", "s", "c", "o", "u", "t", ".", "c", "o", "m", "/", "p", "o", "a", "/", "c", "o", "r", "e", "/", "a", "p", "i">>, <<"h", "t", "t", "p", "s", ":", "/", "/", "b", "l", "o", "c", "k", "s", "c", "o", "u", "t", ".", "c", "o", "m", "/", "p", "o", "a", "/", "c", "o", "r", "e">> >>)
    [] chain = "Rsk" -> Some(<< <<"h", "t", "t", "p", "s", ":", "/", "/", "b", "l", "o", "c", "k", "s", "c", "o", "u", "t", ".", "c", "o", "m", "/", "r", "s", "k", "/", "m", "a", "i", "n", "n", "e", "t", "/", "a", "p", "i">>, <<"h", "t", "t", "p", "s", ":", "/", "/", "b", "l", "o", "c", "k", "s", "c", "o", "u", "t", ".", "c", "o", "m", "/", "r", "s", "k", "/", "m", "a", "i", "n", "n", "e", "t">> >>)
    [] chain = "Oasis" -> Some(<< <<"h", "t", "t", "p", "s", ":", "/", "/", "s", "c", "a", "n", ".", "o", "a", "s", "i", "s", "c", "h", "a", "i", "n", ".", "i", "o", "/", "a", "p", "i">>, <<"h", "t", "t", "p", "s", ":", "/", "/", "s", "c", "a", "n", ".", "o", "a", "s", "i", "s", "c", "h", "a", "i", "n", ".", "i", "o", "/">> >>)
    [] chain = "Emerald" -> Some(<< <<"h", "t", "t", "p", "s", ":", "/", "/", "e", "x", "p", "l", "o", "r", "e", "r", ".", "e", "m", "e", "r", "a", "l", "d", ".", "o", "a", "s", "i", "s", ".", "d", "e", "v", "/", "a", "p", "i">>, <<"h", "t", "t", "p", "s", ":", "/", "/", "e", "x", "p", "l", "o", "r", "e", "r", ".", "e", "m", "e", "r", "a", "l", "d", ".", "o", "a", "s", "i", "s", ".", "d", "e", "v", "/">> >>)
    [] chain = "EmeraldTestnet" -> Some(<< <<"h", "t", "t", "p", "s", ":", "/", "/", "t", "e", "s", "t", "n", "e", "t", ".", "e", "x", "p", "l", "o", "r", "e", "r", ".", "e", "m", "e", "r", "a", "l", "d", ".", "o", "a", "s", "i", "s", ".", "d", "e", "v", "/", "a", "p", "i">>, <<"h", "t", "t", "p", "s", ":", "/", "/", "t", "e", "s", "t", "n", "e", "t", ".", "e", "x", "p", "l", "o", "r", "e", "r", ".", "e", "m", "e", "r", "a", "l", "d", ".", "o", "a", "s", "i", "s", ".", "d", "e", "v", "/">> >>)
    [] chain = "Aurora" -> Some(<< <<"h", "t", "t", "p", "s", ":", "/", "/", "a", "p", "i", ".", "a", "u", "r", "o", "r", "a", "s", "c", "a", "n", ".", "d", "e", "v", "/", "a", "p", "i">>, <<"h", "t", "t", "p", "s", ":", "/", "/", "a", "u", "r", "o", "r", "a", "s", "c", "a", "n", ".", "d", "e", "v">> >>)
    [] chain = "AuroraTestnet" -> Some(<< <<"h", "t", "t", "p", "s", ":", "/", "/", "t", "e", "s", "t", "n", "e", "t", ".", "a", "u", "r", "o", "r", "a", "s", "c", "a", "n", ".", "d", "e", "v", "/", "a", "p", "i">>, <<"h", "t", "t", "p", "s", ":", "/", "/", "t", "e", "s", "t", "n", "e", "t", ".", "a", "u", "r", "o", "r", "a", "s", "c", "a", "n", ".", "d", "e", "v">> >>)
    [] chain = "Evmos" -> Some(<< <<"h", "t", "t", "p", "s", ":", "/", "/", "e", "v", "m", ".", "e", "v", "m", "o", "s", ".", "o", "r", "g", "/", "a", "p", "i">>, <<"h", "t", "t", "p", "s", ":", "/", "/", "e", "v", "m", ".", "e", "v", "m", "o", "s", ".", "o", "r", "g", "/">> >>)
    [] chain = "EvmosTestnet" -> Some(<< <<"h", "t", "t", "p", "s", ":", "/", "/", "e", "v", "m", ".", "e", "v", "m", "o", "s", ".", "d", "e", "v", "/", "a", "p", "i">>, <<"h", "t", "t", "p", "s", ":", "/", "/", "e", "v", "m", ".", "e", "v", "m", "o", "s", ".", "d", "e", "v", "/">> >>)
    [] chain = "Celo" -> Some(<< <<"h", "t", "t", "p", "s", ":", "/", "/", "e", "x", "p", "l", "o", "r", "e", "r", ".", "c", "e", "l", "o", ".", "o", "r", "g", "/", "m", "a", "i", "n", "n", "e", "t">>, <<"h", "t", "t", "p", "s", ":", "/", "/", "e", "x", "p", "l", "o", "r", "e", "r", ".", "c", "e", "l", "o", ".", "o", "r", "g", "/", "m", "a", "i", "n", "n", "e", "t", "/", "a", "p", "i">> >>)
    [] chain = "CeloAlfajores" -> Some(<< <<"h", "t", "t", "p", "s", ":", "/", "/", "e", "x", "p", "l", "o", "r", "e", "r", ".", "c", "e", "l", "o", ".", "o", "r", "g", "/", "a", "l", "f", "a", "j", "o", "r", "e", "s">>, <<"h", "t", "t", "p", "s", ":", "/", "/", "e", "x", "p", "l", "o", "r", "e", "r", ".", "c", "e", "l", "o", ".", "o", "r", "g", "/", "a", "l", "f", "a", "j", "o", "r", "e", "s", "/", "a", "p", "i">> >>)
    [] chain = "CeloBaklava" -> Some(<< <<"h", "t", "t", "p", "s", ":", "/", "/", "e", "x", "p", "l", "o", "r", "e", "r", ".", "c", "e", "l", "o", ".", "o", "r", "g", "/", "b", "a", "k", "l", "a", "v", "a">>, <<"h", "t", "t", "p", "s", ":", "/", "/", "e", "x", "p", "l", "o", "r", "e", "r", ".", "c", "e", "l", "o", ".", "o", "r", "g", "/", "b", "a", "k", "l", "a", "v", "a", "/", "a", "p", "i">> >>)
    [] chain \in {"AnvilHardhat", "Dev", "Morden", "MoonbeamDev"} -> None

\* variant of is_legacy that is true for the chains of unknown status
is_legacy_unknown_true(chain) ==
  chain \notin {"Mainnet", "Goerli", "Sepolia", "Polygon", "PolygonMumbai",
                "Avalanche", "AvalancheFuji"}

\* Chain::is_legacy
is_legacy(chain) ==
  CASE chain \in {"Optimism", "OptimismGoerli", "OptimismKovan", "Fantom",
                  "FantomTestnet", "BinanceSmartChain", "BinanceSmartChainTestnet",
                  "Arbitrum", "ArbitrumTestnet", "ArbitrumGoerli", "ArbitrumNova",
                  "Rsk", "Oasis", "Emerald", "EmeraldTestnet", "Celo",
                  "CeloAlfajores", "CeloBaklava"} -> TRUE
    [] chain \in {"Mainnet", "Goerli", "Sepolia", "Polygon", "PolygonMumbai",
                  "Avalanche", "AvalancheFuji"} -> FALSE
    [] chain \in {"Dev", "AnvilHardhat", "Morden", "Ropsten", "Rinkeby", "Cronos",
                  "CronosTestnet", "Kovan", "Sokol", "Poa", "XDai", "Moonbeam",
                  "MoonbeamDev", "Moonriver", "Moonbase", "Evmos", "EvmosTestnet",
                  "Chiado", "Aurora", "AuroraTestnet"} -> FALSE

(***************************************************************************)
(* ChainIter (#[derive(EnumIter)]).                                        *)
(***************************************************************************)
\* ChainIter::get: the variant at a zero-based index
get(i) == IF i < COUNT THEN Some(Variants[i + 1]) ELSE None

\* Iterator::size_hint().0
size_hint(i, b) == IF i + b >= COUNT THEN 0 ELSE COUNT - i - b

\* variant of nth that stops one item early
nth_off_by_one(i, b, n) ==
  IF i + n + 1 + b >= COUNT THEN << COUNT, None >>
  ELSE << i + n + 1, get(i + n) >>

\* Iterator::nth, <<new idx, item>>: past the end the index freezes at COUNT
nth(i, b, n) ==
  IF i + n + 1 + b > COUNT THEN << COUNT, None >>
  ELSE << i + n + 1, get(i + n) >>

\* DoubleEndedIterator::next_back, <<new back_idx, item>>
next_back(i, b) ==
  IF i + b + 1 > COUNT THEN << COUNT, None >>
  ELSE << b + 1, get(COUNT - (b + 1)) >>

(***************************************************************************)
(* State machine.  A behaviour of Spec is one call on the registry: op and *)
(* arg are the operation and its input, pc is "call" until the call        *)
(* returns and "done" afterwards, when res is the result.  A behaviour of  *)
(* SpecIter drives one ChainIter: idx and back_idx are its fields, front   *)
(* and back the items its next() and next_back() have yielded, exhausted   *)
(* whether either has returned None.                                       *)
(***************************************************************************)
IterInit ==
  /\ idx = 0
  /\ back_idx = 0
  /\ front = << >>
  /\ back = << >>
  /\ exhausted = FALSE

IntoTypes == {"u128", "U64", "U128", "U256", "U512"}

NativeTypes == {"u8", "u16", "u32", "usize"}

WideTypes == {"U128", "U256", "U512"}

Formats ==
  {<< width, precision, align >> :
     width \in OptionOf(0..MaxWidth), precision \in OptionOf(0..MaxPrecision),
     align \in Alignments}

Init ==
  /\ pc = "call"
  /\ res = << >>
  /\ IterInit
  /\ \/ op = "into_u64" /\ arg \in Chain
     \/ op = "into_numeric" /\ arg \in IntoTypes \X Chain
     \/ op = "try_from_u64" /\ arg \in U64Inputs
     \/ op = "try_from_native"
          /\ \E ty \in NativeTypes : arg \in {<< ty, value >> : value \in NativeInputsOf(ty)}
     \/ op = "try_from_U64" /\ arg \in U64Inputs
     \/ op = "try_from_wide"
          /\ \E ty \in WideTypes : arg \in {<< ty, value >> : value \in WideInputs(ty)}
     \/ op = "fmt" /\ arg \in Chain \X Formats
     \/ op = "from_str" /\ arg \in TextInputs
     \/ op = "serialize" /\ arg \in Chain
     \/ op = "deserialize" /\ arg \in TextInputs
     \/ op = "default" /\ arg = << >>
     \/ op = "etherscan_urls" /\ arg \in Chain
     \/ op = "is_legacy" /\ arg \in Chain

IntoU64 ==
  /\ pc = "call"
  /\ op = "into_u64"
  /\ res' = to_u64(arg)
  /\ pc' = "done"
  /\ UNCHANGED << op, arg >>
  /\ UNCHANGED iterVars

IntoNumeric ==
  /\ pc = "call"
  /\ op = "into_numeric"
  /\ res' = into_numeric(arg[1], arg[2])
  /\ pc' = "done"
  /\ UNCHANGED << op, arg >>
  /\ UNCHANGED iterVars

TryFromU64 ==
  /\ pc = "call"
  /\ op = "try_from_u64"
  /\ res' = from_u64(arg)
  /\ pc' = "done"
  /\ UNCHANGED << op, arg >>
  /\ UNCHANGED iterVars

TryFromNative ==
  /\ pc = "call"
  /\ op = "try_from_native"
  /\ res' = try_from_native(arg[2])
  /\ pc' = "done"
  /\ UNCHANGED << op, arg >>
  /\ UNCHANGED iterVars

TryFromU64Wrapper ==
  /\ pc = "call"
  /\ op = "try_from_U64"
  /\ res' = try_from_U64(arg)
  /\ pc' = "done"
  /\ UNCHANGED << op, arg >>
  /\ UNCHANGED iterVars

TryFromWide ==
  /\ pc = "call"
  /\ op = "try_from_wide"
  /\ res' = try_from_wide(arg[2])
  /\ pc' = "done"
  /\ UNCHANGED << op, arg >>
  /\ UNCHANGED iterVars

Display ==
  /\ pc = "call"
  /\ op = "fmt"
  /\ res' = fmt(arg[1], arg[2][1], arg[2][2], arg[2][3])
  /\ pc' = "done"
  /\ UNCHANGED << op, arg >>
  /\ UNCHANGED iterVars

FromStr ==
  /\ pc = "call"
  /\ op = "from_str"
  /\ res' = from_str(arg)
  /\ pc' = "done"
  /\ UNCHANGED << op, arg >>
  /\ UNCHANGED iterVars

Serialize ==
  /\ pc = "call"
  /\ op = "serialize"
  /\ res' = serialize(arg)
  /\ pc' = "done"
  /\ UNCHANGED << op, arg >>
  /\ UNCHANGED iterVars

Deserialize ==
  /\ pc = "call"
  /\ op = "deserialize"
  /\ res' = deserialize(arg)
  /\ pc' = "done"
  /\ UNCHANGED << op, arg >>
  /\ UNCHANGED iterVars

Default ==
  /\ pc = "call"
  /\ op = "default"
  /\ res' = default
  /\ pc' = "done"
  /\ UNCHANGED << op, arg >>
  /\ UNCHANGED iterVars

EtherscanUrls ==
  /\ pc = "call"
  /\ op = "etherscan_urls"
  /\ res' = etherscan_urls(arg)
  /\ pc' = "done"
  /\ UNCHANGED << op, arg >>
  /\ UNCHANGED iterVars

IsLegacy ==
  /\ pc = "call"
  /\ op = "is_legacy"
  /\ res' = is_legacy(arg)
  /\ pc' = "done"
  /\ UNCHANGED << op, arg >>
  /\ UNCHANGED iterVars

Next ==
  \/ IntoU64
  \/ IntoNumeric
  \/ TryFromU64
  \/ TryFromNative
  \/ TryFromU64Wrapper
  \/ TryFromWide
  \/ Display
  \/ FromStr
  \/ Serialize
  \/ Deserialize
  \/ Default
  \/ EtherscanUrls
  \/ IsLegacy

Spec == Init /\ [][Next]_vars

InitIter ==
  /\ pc = "iter"
  /\ op = "none"
  /\ arg = << >>
  /\ res = << >>
  /\ IterInit

\* Iterator::next is nth(0)
IterNext ==
  LET r == nth(idx, back_idx, 0)
  IN  /\ idx' = r[1]
      /\ front' = IF r[2] = None THEN front ELSE Append(front, r[2][1])
      /\ exhausted' = (exhausted \/ r[2] = None)
      /\ UNCHANGED << back_idx, back >>
      /\ UNCHANGED callVars

IterNextBack ==
  LET r == next_back(idx, back_idx)
  IN  /\ back_idx' = r[1]
      /\ back' = IF r[2] = None THEN back ELSE Append(back, r[2][1])
      /\ exhausted' = (exhausted \/ r[2] = None)
      /\ UNCHANGED << idx, front >>
      /\ UNCHANGED callVars

NextIter ==
  \/ IterNext
  \/ IterNextBack

SpecIter == InitIter /\ [][NextIter]_vars

(***************************************************************************)
(* Properties.                                                             *)
(***************************************************************************)
Returned(o) == pc = "done" /\ op = o

DefaultFormat == arg[2][1] = None /\ arg[2][2] = None

ChainWithId(r, id) == r[1] = "Ok" /\ Discriminant(r[2]) = id

\* the lowercase hyphen-separated form of each variant name
KebabName(chain) ==
  CASE chain = "Mainnet" -> "mainnet"
    [] chain = "Morden" -> "morden"
    [] chain = "Ropsten" -> "ropsten"
    [] chain = "Rinkeby" -> "rinkeby"
    [] chain = "Goerli" -> "goerli"
    [] chain = "Kovan" -> "kovan"
    [] chain = "Sepolia" -> "sepolia"
    [] chain = "Optimism" -> "optimism"
    [] chain = "OptimismKovan" -> "optimism-kovan"
    [] chain = "OptimismGoerli" -> "optimism-goerli"
    [] chain = "Arbitrum" -> "arbitrum"
    [] chain = "ArbitrumTestnet" -> "arbitrum-testnet"
    [] chain = "ArbitrumGoerli" -> "arbitrum-goerli"
    [] chain = "ArbitrumNova" -> "arbitrum-nova"
    [] chain = "Cronos" -> "cronos"
    [] chain = "CronosTestnet" -> "cronos-testnet"
    [] chain = "Rsk" -> "rsk"
    [] chain = "BinanceSmartChain" -> "binance-smart-chain"
    [] chain = "BinanceSmartChainTestnet" -> "binance-smart-chain-testnet"
    [] chain = "Poa" -> "poa"
    [] chain = "Sokol" -> "sokol"
    [] chain = "XDai" -> "x-dai"
    [] chain = "Polygon" -> "polygon"
    [] chain = "PolygonMumbai" -> "polygon-mumbai"
    [] chain = "Fantom" -> "fantom"
    [] chain = "FantomTestnet" -> "fantom-testnet"
    [] chain = "Moonbeam" -> "moonbeam"
    [] chain = "MoonbeamDev" -> "moonbeam-dev"
    [] chain = "Moonriver" -> "moonriver"
    [] chain = "Moonbase" -> "moonbase"
    [] chain = "Dev" -> "dev"
    [] chain = "AnvilHardhat" -> "anvil-hardhat"
    [] chain = "Evmos" -> "evmos"
    [] chain = "EvmosTestnet" -> "evmos-testnet"
    [] chain = "Chiado" -> "chiado"
    [] chain = "Oasis" -> "oasis"
    [] chain = "Emerald" -> "emerald"
    [] chain = "EmeraldTestnet" -> "emerald-testnet"
    [] chain = "Avalanche" -> "avalanche"
    [] chain = "AvalancheFuji" -> "avalanche-fuji"
    [] chain = "Celo" -> "celo"
    [] chain = "CeloAlfajores" -> "celo-alfajores"
    [] chain = "CeloBaklava" -> "celo-baklava"
    [] chain = "Aurora" -> "aurora"
    [] chain = "AuroraTestnet" -> "aurora-testnet"

\* C1: from_u64 is the exact partial inverse of to_u64.  A returned
\* try_from of a 64-bit number (or of a u8/u16/u32/usize widened to 64 bits)
\* is Ok(C) exactly when the number is C's id, and is otherwise the error
\* carrying that number; from_u64 of a returned to_u64(C) is Ok(C).
C1_NumericInverse ==
  /\ Returned("try_from_u64") =>
       /\ \A chain \in Chain : (res = Ok(chain)) <=> (arg = to_u64(chain))
       /\ (\A chain \in Chain : arg # to_u64(chain)) => res = ParseChainError(arg)
  /\ Returned("into_u64") => from_u64(res) = Ok(arg)
  /\ Returned("try_from_native") =>
       LET wide == arg[2] \o Zeros(8 - Len(arg[2]))
       IN  /\ \A chain \in Chain : (res = Ok(chain)) <=> (wide = to_u64(chain))
           /\ (\A chain \in Chain : wide # to_u64(chain)) => res = ParseChainError(wide)

\* 2^32 + 1 given to try_from(u64): no chain, although its low half is 1
C1_Witness ==
  /\ Returned("try_from_u64")
  /\ arg = Bytes(1, 4) \o Bytes(1, 4)
  /\ res = ParseChainError(arg)

NeedsMoreThan64Bits(value) == \E i \in 9..Len(value) : value[i] # 0

\* C2: a returned try_from of a U128/U256/U512 that needs more than 64 bits
\* is the error carrying the low 64 bits of the input and never a chain; for
\* an input that fits in 64 bits it is from_u64 of the low 64 bits.
C2_WideNarrowing ==
  Returned("try_from_wide") =>
    LET low == SubSeq(arg[2], 1, 8)
    IN  IF NeedsMoreThan64Bits(arg[2])
          THEN res = ParseChainError(low)
          ELSE res = from_u64(low)

\* 2^64 + 1 as a U256 is rejected with number 1, not resolved to Mainnet
C2_Witness ==
  /\ Returned("try_from_wide")
  /\ arg = << "U256", Bytes(1, 8) \o Bytes(1, 8) \o Zeros(16) >>
  /\ res = ParseChainError(Bytes(1, 8))

\* C3: name round trip.  Parsing the text that Display (default format)
\* returned for a chain yields that chain.
C3_NameRoundTrip ==
  (Returned("fmt") /\ DefaultFormat) => from_str(res) = Ok(arg[1])

C3_Witness ==
  /\ Returned("fmt")
  /\ DefaultFormat
  /\ arg[1] = "XDai"
  /\ from_str(res) = Ok("XDai")

C5_AliasesResolve ==
  Returned("from_str") =>
    /\ Str(arg) = "bsc" => ChainWithId(res, 56)
    /\ Str(arg) = "bsc-testnet" => ChainWithId(res, 97)
    /\ Str(arg) \in {"gnosis", "xdai", "gnosis-chain"} => ChainWithId(res, 100)
    /\ Str(arg) \in {"mumbai", "polygon-mumbai"} => ChainWithId(res, 80001)
    /\ Str(arg) = "dev" => ChainWithId(res, 1337)
    /\ Str(arg) \in {"anvil-hardhat", "anvil", "hardhat"} => ChainWithId(res, 31337)
    /\ Str(arg) \in {"fuji", "avalanche-fuji"} => ChainWithId(res, 43113)
    /\ \A c, d \in Chain :
         (Matches(get_serializations(c), arg) /\ Matches(get_serializations(d), arg))
           => c = d
    /\ \A c \in Chain : Matches(get_serializations(c), arg) => res = Ok(c)

C5_Witness ==
  /\ Returned("from_str")
  /\ Str(arg) = "hardhat"
  /\ res = Ok("AnvilHardhat")

\* C6: serialization emits the display name, deserializing the emitted text
\* yields the chain again, and deserializing any text that parse accepts
\* for a chain yields that chain.
C6_SerdeAgree ==
  /\ Returned("serialize") =>
       /\ res = to_string(arg)
       /\ deserialize(res) = Ok(arg)
  /\ Returned("deserialize") =>
       \A chain \in Chain : from_str(arg) = Ok(chain) => res = Ok(chain)

\* C7: the default chain is Mainnet, id 1, and serializes as "mainnet".
C7_DefaultMainnet ==
  Returned("default") =>
    /\ res = "Mainnet"
    /\ Discriminant(res) = 1
    /\ Str(serialize(res)) = "mainnet"

C7_Witness ==
  /\ Returned("default")
  /\ Str(serialize(res)) = "mainnet"

\* C8: iteration yields every chain exactly once.  A fresh iterator
\* announces COUNT items, the announced count always equals what is still
\* to come, an exhausted iterator has yielded COUNT items that make up the
\* whole variant set, and no two variants share a numeric id.
C8_IterationComplete ==
  /\ Cardinality(Chain) = COUNT
  /\ \A c, d \in Chain : Discriminant(c) = Discriminant(d) => c = d
  /\ pc = "iter" =>
       /\ (idx = 0 /\ back_idx = 0) => size_hint(idx, back_idx) = COUNT
       /\ ~exhausted => size_hint(idx, back_idx) = COUNT - Len(front) - Len(back)
       /\ exhausted =>
            /\ Len(front) + Len(back) = COUNT
            /\ SeqToSet(front \o back) = Chain

C8_Witness ==
  /\ pc = "iter"
  /\ exhausted
  /\ Len(front) = COUNT
  /\ SeqToSet(front) = Chain

KnownLegacy ==
  {"Optimism", "OptimismGoerli", "OptimismKovan", "Fantom", "FantomTestnet",
   "BinanceSmartChain", "BinanceSmartChainTestnet", "Arbitrum", "ArbitrumTestnet",
   "ArbitrumGoerli", "ArbitrumNova", "Rsk", "Oasis", "Emerald", "EmeraldTestnet",
   "Celo", "CeloAlfajores", "CeloBaklava"}

EndsWith(s, suffix) ==
  /\ Len(s) >= Len(suffix)
  /\ SubSeq(s, Len(s) - Len(suffix) + 1, Len(s)) = suffix

\* C10: etherscan_urls returns nothing only for AnvilHardhat, Dev, Morden
\* and MoonbeamDev, and every pair it returns is (API URL, base URL): the
\* first ends in "/api" and the second does not.
C10_UrlOrder ==
  Returned("etherscan_urls") =>
    /\ res = None <=> arg \in {"AnvilHardhat", "Dev", "Morden", "MoonbeamDev"}
    /\ res # None =>
         /\ EndsWith(res[1][1], <<"/", "a", "p", "i">>)
         /\ ~EndsWith(res[1][2], <<"/", "a", "p", "i">>)

====
